---- MODULE Spec2Model ----
(***************************************************************************)
(* Model of introduction/evolutionary_algorithms.ipynb: binary             *)
(* individuals, the OneMax and Leading Ones objectives, mutate, and the    *)
(* (1+1) and (1+lambda) evolutionary algorithms.                           *)
(*                                                                         *)
(* Individuals and gene arrays are Python objects, so they live in two     *)
(* heaps addressed by slot; an object no variable or list refers to any    *)
(* more is released at once (reference counting) and its slot is reused.   *)
(* Line numbers are those of the notebook file.                            *)
(***************************************************************************)
EXTENDS Integers, Sequences, FiniteSets, TLC

\* Bounds of the model.
MaxLen == 2        \* genome lengths 1..MaxLen
MaxGen == 2        \* generation counts 0..MaxGen
MaxLambda == 3     \* lambda in -1..MaxLambda
RandDen == 2       \* np.random.rand() yields k/RandDen, k in 0..RandDen-1

\* for i in range(20): the iterations of the (1+1) demonstration cell.
DemoIterations == 20

\* ind = Individual(10): the global individual alive when mutate is defined.
IndGenesLen == 10

\* self.fitness = -np.inf.  The objectives return counts >= 0, so the
\* sentinel is represented by an integer below every objective value and
\* the comparisons >= and > keep their meaning.
NegInf == -1

VARIABLES
    func,             \* the function the notebook called
    pc,               \* position inside that function
    ind_length,       \* argument ind_length
    num_generations,  \* argument num_generations
    objective,        \* argument objective (name of the function)
    lambda,           \* argument of one_plus_lambda
    heap,             \* Individual objects: slot -> [genes, fitness, evals]
    arrays,           \* numpy arrays: slot -> sequence of bits
    parent,           \* slot or 0 (unbound)
    child,            \* slot or 0
    expert,           \* slot or 0
    population,       \* list of slots
    best,             \* 0-based index into population
    j,                \* inner loop index of one_plus_lambda
    i,                \* generational loop index
    fits,             \* np.zeros(num_generations), filled as the loop runs
    mutation_rate,    \* the mutation_rate parameter of the latest mutate call
    nevals,           \* number of evaluate calls made by the current call
    maxfit            \* largest fitness evaluate has assigned in the current call

vars == <<func, pc, ind_length, num_generations, objective, lambda, heap,
          arrays, parent, child, expert, population, best, j, i, fits,
          mutation_rate, nevals, maxfit>>

----------------------------------------------------------------------------
\* Value domains

Bits == {0, 1}
Lengths == 1..MaxLen
Genomes(n) == [1..n -> Bits]
Objectives == {"onemax", "leading_ones"}

NumSlots == MaxLambda + 2
Slots == 1..NumSlots
NoInd == [genes |-> 0, fitness |-> NegInf, evals |-> 0]
NoArr == <<>>

\* A mutation rate is the rational <<numerator, denominator>>.
\* mutation_rate=1.0/len(ind.genes) is evaluated once, when the def statement
\* runs, with the global ind of the notebook.
DefaultMutationRate == <<1, IndGenesLen>>
Rates == {<<0, 1>>, DefaultMutationRate, <<1, 2>>, <<1, 1>>}

\* np.random.rand(): one draw per gene, each in [0, 1).
Draws(n) == [1..n -> 0..(RandDen - 1)]

----------------------------------------------------------------------------
\* Pure functions

RECURSIVE SumBits(_, _)
SumBits(g, k) == IF k = 0 THEN 0 ELSE g[k] + SumBits(g, k - 1)

\* def onemax(i): return np.sum(i.genes)
onemax(g) == SumBits(g, Len(g))

\* def leading_ones(ind): f = 0; for i in range(len): if not genes[i]: f = i; break
leading_ones(g) ==
    LET zeros == {k \in 1..Len(g) : g[k] = 0}
    IN  IF zeros = {} THEN 0
        ELSE (CHOOSE k \in zeros : \A m \in zeros : k <= m) - 1

Objective(obj, g) == IF obj = "onemax" THEN onemax(g) ELSE leading_ones(g)

\* not ind.genes[i], stored into an integer array
Not(b) == IF b = 0 THEN 1 ELSE 0

\* Variant: the draw is compared with <= instead of <.
FlipsInclusive(d, rate) == d * rate[2] <= rate[1] * RandDen

\* np.random.rand() < mutation_rate, for the draw d/RandDen
Flips(d, rate) == d * rate[2] < rate[1] * RandDen

\* The gene values mutate computes from the genes of ind.
MutatedGenes(g, rate, draws) ==
    [k \in 1..Len(g) |-> IF Flips(draws[k], rate) THEN Not(g[k]) ELSE g[k]]

\* Variants: the child always replaces the parent; only a strictly better
\* child replaces the parent.
AcceptAlways(childFit, parentFit) == TRUE
AcceptStrict(childFit, parentFit) == childFit > parentFit

\* if child.fitness >= parent.fitness          (one_plus_one)
AcceptChild(childFit, parentFit) == childFit >= parentFit

\* Variants: a candidate displaces the best when it is worse; when it is
\* at least as good.
BetterReversed(candFit, bestFit) == candFit < bestFit
BetterOrEqual(candFit, bestFit) == candFit >= bestFit

\* if population[j].fitness > population[best].fitness
Better(candFit, bestFit) == candFit > bestFit

\* if population[best].fitness >= expert.fitness
AcceptBest(bestFit, expertFit) == bestFit >= expertFit

\* Variant: the generational loop stops one iteration short.
GenerationsShort(f) == 0..(Len(f) - 2)

\* for i in tqdm(range(len(fits)))
Generations(f) == 0..(Len(f) - 1)

\* Variant: at least one offspring is made, whatever lambda.
OffspringClamped(lam) == 1..(IF lam < 2 THEN 1 ELSE lam - 1)

\* Variant: lambda offspring instead of lambda - 1.
OffspringInclusive(lam) == 1..lam

\* for j in range(1, lambda)
Offspring(lam) == 1..(lam - 1)

----------------------------------------------------------------------------
\* Heap operations

FreeSlot(h) ==
    CHOOSE s \in Slots : h[s] = NoInd /\ \A t \in Slots : h[t] = NoInd => s <= t

FreeArr(a) ==
    CHOOSE s \in Slots : a[s] = NoArr /\ \A t \in Slots : a[t] = NoArr => s <= t

\* Variant: new_genes = ind.genes, no copy.
NoCopy(a, src) == src

\* new_genes = np.copy(ind.genes): the slot of the array new_genes names
NpCopy(a, src) == FreeArr(a)

\* Objects that nothing refers to any more are released.
Collect(h, roots) == [s \in Slots |-> IF s \in roots THEN h[s] ELSE NoInd]
CollectArr(a, h) ==
    [s \in Slots |-> IF \E t \in Slots : h[t].genes = s THEN a[s] ELSE NoArr]

GenesOf(h, a, s) == a[h[s].genes]

Max(x, y) == IF x >= y THEN x ELSE y

\* Individual(n): a new object with random genes and fitness -inf
\* (result: the pair of heaps; the object is in slot FreeSlot(h)).
NewIndividual(h, a, g) ==
    LET s == FreeSlot(h)
        t == FreeArr(a)
    IN  [h |-> [h EXCEPT ![s] = [genes |-> t, fitness |-> NegInf, evals |-> 0]],
         a |-> [a EXCEPT ![t] = g]]

\* def evaluate(ind, objective): ind.fitness = objective(ind)
Evaluate(h, a, s, obj) ==
    [h EXCEPT ![s].fitness = Objective(obj, GenesOf(h, a, s)),
              ![s].evals = @ + 1]

\* def mutate(ind, mutation_rate): the heaps after the call; the child is in
\* slot FreeSlot(h).  Individual(len(ind.genes)) gives the child a random
\* array of its own, which child.genes = new_genes releases before mutate
\* returns: the heaps after the call do not depend on its content, so the
\* model fills it with zeros instead of enumerating it.
Mutate(h, a, s, rate, draws) ==
    LET src == h[s].genes
        ng  == NpCopy(a, src)
        a1  == [a EXCEPT ![ng] = a[src]]
        a2  == [a1 EXCEPT ![ng] = MutatedGenes(a1[src], rate, draws)]
        c   == FreeSlot(h)
        made == NewIndividual(h, a2, [k \in 1..Len(a[src]) |-> 0])
        h1  == [made.h EXCEPT ![c].genes = ng]
    IN  [h |-> h1, a |-> CollectArr(made.a, h1)]

----------------------------------------------------------------------------
\* Initial state: the notebook has defined everything and called nothing.

Init ==
    /\ func = "none"
    /\ pc = "idle"
    /\ ind_length = 0
    /\ num_generations = 0
    /\ objective = "onemax"
    /\ lambda = 0
    /\ heap = [s \in Slots |-> NoInd]
    /\ arrays = [s \in Slots |-> NoArr]
    /\ parent = 0
    /\ child = 0
    /\ expert = 0
    /\ population = <<>>
    /\ best = 0
    /\ j = 0
    /\ i = 0
    /\ fits = <<>>
    /\ mutation_rate = <<0, 1>>
    /\ nevals = 0
    /\ maxfit = NegInf

----------------------------------------------------------------------------
\* A top-level call of mutate, as in the cell
\*   parent = Individual(n); evaluate(parent, onemax); child = mutate(parent)
\* with the mutation_rate either defaulted or given.

CallMutate ==
    /\ pc = "idle"
    /\ \E n \in Lengths, g0 \in Genomes(MaxLen), rate \in Rates :
         LET g    == [k \in 1..n |-> g0[k]]
             made == NewIndividual(heap, arrays, g)
             p    == FreeSlot(heap)
         IN  /\ ind_length' = n
             /\ heap' = Evaluate(made.h, made.a, p, "onemax")
             /\ arrays' = made.a
             /\ parent' = p
             /\ mutation_rate' = rate
    /\ func' = "mutate"
    /\ pc' = "mutate"
    /\ objective' = "onemax"
    /\ nevals' = 1
    /\ maxfit' = heap'[parent'].fitness
    /\ UNCHANGED <<num_generations, lambda, child, expert, population, best,
                   j, i, fits>>

MutateReturn ==
    /\ pc = "mutate"
    /\ \E draws \in Draws(ind_length) :
         LET c == FreeSlot(heap)
             m == Mutate(heap, arrays, parent, mutation_rate, draws)
         IN  /\ child' = c
             /\ heap' = Collect(m.h, {parent, c})
             /\ arrays' = CollectArr(m.a, Collect(m.h, {parent, c}))
    /\ pc' = "done"
    /\ UNCHANGED <<maxfit, func, ind_length, num_generations, objective, lambda,
                   parent, expert, population, best, j, i, fits,
                   mutation_rate, nevals>>

----------------------------------------------------------------------------
\* def one_plus_one(ind_length, num_generations, objective)

\* fits = np.zeros(num_generations); parent = Individual(ind_length);
\* evaluate(parent, objective)
OnePlusOneCall ==
    /\ pc = "idle"
    /\ \E n \in Lengths, g0 \in Genomes(MaxLen), G \in 0..MaxGen,
          obj \in Objectives :
         LET g    == [k \in 1..n |-> g0[k]]
             made == NewIndividual(heap, arrays, g)
             p    == FreeSlot(heap)
         IN  /\ ind_length' = n
             /\ num_generations' = G
             /\ objective' = obj
             /\ fits' = [k \in 1..G |-> 0]
             /\ heap' = Evaluate(made.h, made.a, p, obj)
             /\ arrays' = made.a
             /\ parent' = p
    /\ func' = "one_plus_one"
    /\ pc' = "opo_loop"
    /\ i' = 0
    /\ nevals' = 1
    /\ maxfit' = heap'[parent'].fitness
    /\ UNCHANGED <<lambda, child, expert, population, best, j, mutation_rate>>

\* child = mutate(parent)
OnePlusOneMutate ==
    /\ pc = "opo_loop"
    /\ i \in Generations(fits)
    /\ \E draws \in Draws(ind_length) :
         LET c == FreeSlot(heap)
             m == Mutate(heap, arrays, parent, DefaultMutationRate, draws)
         IN  /\ child' = c
             /\ heap' = Collect(m.h, {parent, c})
             /\ arrays' = CollectArr(m.a, Collect(m.h, {parent, c}))
    /\ mutation_rate' = DefaultMutationRate
    /\ pc' = "opo_eval"
    /\ UNCHANGED <<maxfit, func, ind_length, num_generations, objective, lambda,
                   parent, expert, population, best, j, i, fits, nevals>>

\* evaluate(child, objective)
OnePlusOneEvaluate ==
    /\ pc = "opo_eval"
    /\ heap' = Evaluate(heap, arrays, child, objective)
    /\ nevals' = nevals + 1
    /\ pc' = "opo_select"
    /\ maxfit' = Max(maxfit, heap'[child].fitness)
    /\ UNCHANGED <<func, ind_length, num_generations, objective, lambda,
                   arrays, parent, child, expert, population, best, j, i,
                   fits, mutation_rate>>

\* if child.fitness >= parent.fitness: parent = child
\* fits[i] = parent.fitness
OnePlusOneSelect ==
    /\ pc = "opo_select"
    /\ LET np == IF AcceptChild(heap[child].fitness, heap[parent].fitness)
                 THEN child ELSE parent
           h1 == Collect(heap, {np, child})
       IN  /\ parent' = np
           /\ fits' = [fits EXCEPT ![i + 1] = heap[np].fitness]
           /\ heap' = h1
           /\ arrays' = CollectArr(arrays, h1)
    /\ i' = i + 1
    /\ pc' = "opo_loop"
    /\ UNCHANGED <<maxfit, func, ind_length, num_generations, objective, lambda,
                   child, expert, population, best, j, mutation_rate, nevals>>

\* return fits
OnePlusOneReturn ==
    /\ pc = "opo_loop"
    /\ i \notin Generations(fits)
    /\ pc' = "done"
    /\ heap' = [s \in Slots |-> NoInd]
    /\ arrays' = [s \in Slots |-> NoArr]
    /\ parent' = 0
    /\ child' = 0
    /\ UNCHANGED <<maxfit, func, ind_length, num_generations, objective, lambda,
                   expert, population, best, j, i, fits, mutation_rate, nevals>>

----------------------------------------------------------------------------
\* def one_plus_lambda(ind_length, num_generations, objective, lambda)

Elems(pop) == {pop[k] : k \in 1..Len(pop)}

\* population[k] with Python's 0-based index
At(pop, k) == pop[k + 1]

\* fits = np.zeros(num_generations); expert = Individual(ind_length);
\* evaluate(expert, objective)
OnePlusLambdaCall ==
    /\ pc = "idle"
    /\ \E n \in Lengths, g0 \in Genomes(MaxLen), G \in 0..MaxGen,
          obj \in Objectives, lam \in (-1)..MaxLambda :
         LET g    == [k \in 1..n |-> g0[k]]
             made == NewIndividual(heap, arrays, g)
             e    == FreeSlot(heap)
         IN  /\ ind_length' = n
             /\ num_generations' = G
             /\ objective' = obj
             /\ lambda' = lam
             /\ fits' = [k \in 1..G |-> 0]
             /\ heap' = Evaluate(made.h, made.a, e, obj)
             /\ arrays' = made.a
             /\ expert' = e
    /\ func' = "one_plus_lambda"
    /\ pc' = "opl_loop"
    /\ i' = 0
    /\ nevals' = 1
    /\ maxfit' = heap'[expert'].fitness
    /\ UNCHANGED <<parent, child, population, best, j, mutation_rate>>

\* population = [expert,]; best = 0     (the previous list is released)
OnePlusLambdaGeneration ==
    /\ pc = "opl_loop"
    /\ i \in Generations(fits)
    /\ population' = <<expert>>
    /\ best' = 0
    /\ j' = 1
    /\ heap' = Collect(heap, {expert})
    /\ arrays' = CollectArr(arrays, Collect(heap, {expert}))
    /\ pc' = "opl_inner"
    /\ UNCHANGED <<maxfit, func, ind_length, num_generations, objective, lambda,
                   parent, child, expert, i, fits, mutation_rate, nevals>>

\* population.append(mutate(expert))
OnePlusLambdaMutate ==
    /\ pc = "opl_inner"
    /\ j \in Offspring(lambda)
    /\ \E draws \in Draws(ind_length) :
         LET c == FreeSlot(heap)
             m == Mutate(heap, arrays, expert, DefaultMutationRate, draws)
         IN  /\ population' = Append(population, c)
             /\ heap' = m.h
             /\ arrays' = m.a
    /\ mutation_rate' = DefaultMutationRate
    /\ pc' = "opl_eval"
    /\ UNCHANGED <<maxfit, func, ind_length, num_generations, objective, lambda,
                   parent, child, expert, best, j, i, fits, nevals>>

\* evaluate(population[j], objective)
OnePlusLambdaEvaluate ==
    /\ pc = "opl_eval"
    /\ heap' = Evaluate(heap, arrays, At(population, j), objective)
    /\ nevals' = nevals + 1
    /\ pc' = "opl_compare"
    /\ maxfit' = Max(maxfit, heap'[At(population, j)].fitness)
    /\ UNCHANGED <<func, ind_length, num_generations, objective, lambda,
                   arrays, parent, child, expert, population, best, j, i,
                   fits, mutation_rate>>

\* if population[j].fitness > population[best].fitness: best = j
OnePlusLambdaCompare ==
    /\ pc = "opl_compare"
    /\ best' = IF Better(heap[At(population, j)].fitness,
                         heap[At(population, best)].fitness)
               THEN j ELSE best
    /\ j' = j + 1
    /\ pc' = "opl_inner"
    /\ UNCHANGED <<maxfit, func, ind_length, num_generations, objective, lambda,
                   heap, arrays, parent, child, expert, population, i, fits,
                   mutation_rate, nevals>>

\* if population[best].fitness >= expert.fitness: expert = population[best]
\* fits[i] = expert.fitness
OnePlusLambdaSelect ==
    /\ pc = "opl_inner"
    /\ j \notin Offspring(lambda)
    /\ LET b  == At(population, best)
           ne == IF AcceptBest(heap[b].fitness, heap[expert].fitness)
                 THEN b ELSE expert
       IN  /\ expert' = ne
           /\ fits' = [fits EXCEPT ![i + 1] = heap[ne].fitness]
    /\ i' = i + 1
    /\ pc' = "opl_loop"
    /\ UNCHANGED <<maxfit, func, ind_length, num_generations, objective, lambda,
                   heap, arrays, parent, child, population, best, j,
                   mutation_rate, nevals>>

\* return fits
OnePlusLambdaReturn ==
    /\ pc = "opl_loop"
    /\ i \notin Generations(fits)
    /\ pc' = "done"
    /\ heap' = [s \in Slots |-> NoInd]
    /\ arrays' = [s \in Slots |-> NoArr]
    /\ expert' = 0
    /\ population' = <<>>
    /\ best' = 0
    /\ j' = 0
    /\ UNCHANGED <<maxfit, func, ind_length, num_generations, objective, lambda,
                   parent, child, i, fits, mutation_rate, nevals>>

----------------------------------------------------------------------------
\* The (1+1) demonstration cell:
\*   parent = Individual(n)
\*   for i in range(20):
\*       child = mutate(parent); evaluate(child, onemax)
\*       if child.fitness >= parent.fitness: parent = child
\*   print(parent.fitness, " / ", n)
\* n is a global of the notebook; the model draws it from Lengths.

\* parent = Individual(n)                  (no evaluate)
DemoCall ==
    /\ pc = "idle"
    /\ \E n \in Lengths, g0 \in Genomes(MaxLen) :
         LET g    == [k \in 1..n |-> g0[k]]
             made == NewIndividual(heap, arrays, g)
             p    == FreeSlot(heap)
         IN  /\ ind_length' = n
             /\ heap' = made.h
             /\ arrays' = made.a
             /\ parent' = p
    /\ func' = "demo"
    /\ pc' = "demo_loop"
    /\ objective' = "onemax"
    /\ i' = 0
    /\ nevals' = 0
    /\ UNCHANGED <<maxfit, num_generations, lambda, child, expert, population, best,
                   j, fits, mutation_rate>>

\* for i in range(20): child = mutate(parent)
DemoMutate ==
    /\ pc = "demo_loop"
    /\ i \in 0..(DemoIterations - 1)
    /\ \E draws \in Draws(ind_length) :
         LET c == FreeSlot(heap)
             m == Mutate(heap, arrays, parent, DefaultMutationRate, draws)
         IN  /\ child' = c
             /\ heap' = Collect(m.h, {parent, c})
             /\ arrays' = CollectArr(m.a, Collect(m.h, {parent, c}))
    /\ mutation_rate' = DefaultMutationRate
    /\ pc' = "demo_eval"
    /\ UNCHANGED <<maxfit, func, ind_length, num_generations, objective, lambda,
                   parent, expert, population, best, j, i, fits, nevals>>

\* evaluate(child, onemax)
DemoEvaluate ==
    /\ pc = "demo_eval"
    /\ heap' = Evaluate(heap, arrays, child, "onemax")
    /\ nevals' = nevals + 1
    /\ pc' = "demo_select"
    /\ maxfit' = Max(maxfit, heap'[child].fitness)
    /\ UNCHANGED <<func, ind_length, num_generations, objective, lambda,
                   arrays, parent, child, expert, population, best, j, i,
                   fits, mutation_rate>>

\* if child.fitness >= parent.fitness: parent = child
DemoSelect ==
    /\ pc = "demo_select"
    /\ LET np == IF AcceptChild(heap[child].fitness, heap[parent].fitness)
                 THEN child ELSE parent
           h1 == Collect(heap, {np, child})
       IN  /\ parent' = np
           /\ heap' = h1
           /\ arrays' = CollectArr(arrays, h1)
    /\ i' = i + 1
    /\ pc' = "demo_loop"
    /\ UNCHANGED <<maxfit, func, ind_length, num_generations, objective, lambda,
                   child, expert, population, best, j, fits, mutation_rate,
                   nevals>>

\* print(parent.fitness, " / ", n)
DemoReturn ==
    /\ pc = "demo_loop"
    /\ i \notin 0..(DemoIterations - 1)
    /\ pc' = "done"
    /\ UNCHANGED <<maxfit, func, ind_length, num_generations, objective, lambda,
                   heap, arrays, parent, child, expert, population, best, j,
                   i, fits, mutation_rate, nevals>>

----------------------------------------------------------------------------
Next ==
    \/ CallMutate
    \/ MutateReturn
    \/ OnePlusOneCall
    \/ OnePlusOneMutate
    \/ OnePlusOneEvaluate
    \/ OnePlusOneSelect
    \/ OnePlusOneReturn
    \/ OnePlusLambdaCall
    \/ OnePlusLambdaGeneration
    \/ OnePlusLambdaMutate
    \/ OnePlusLambdaEvaluate
    \/ OnePlusLambdaCompare
    \/ OnePlusLambdaSelect
    \/ OnePlusLambdaReturn
    \/ DemoCall
    \/ DemoMutate
    \/ DemoEvaluate
    \/ DemoSelect
    \/ DemoReturn

Spec == Init /\ [][Next]_vars

\* The interpreter always executes the next statement of a running call.
FairSpec == Spec /\ WF_vars(Next)

TypeOK ==
    /\ pc \in {"idle", "mutate", "opo_loop", "opo_eval", "opo_select",
               "opl_loop", "opl_inner", "opl_eval", "opl_compare",
               "demo_loop", "demo_eval", "demo_select", "done"}
    /\ i \in 0..MaxGen \/ (func = "demo" /\ i \in 0..DemoIterations)
    /\ \A s \in Slots : heap[s] # NoInd => arrays[heap[s].genes] # NoArr

----------------------------------------------------------------------------
\* Properties

Runs == {"one_plus_one", "one_plus_lambda"}

\* C1: the fitness sequence recorded by one_plus_one and by one_plus_lambda
\* is non-decreasing: every recorded fits[i] is >= fits[i-1].
C1_FitsNonDecreasing ==
    func \in Runs => \A k \in 2..i : fits[k] >= fits[k - 1]

\* A (1+1) run that recorded two generations and whose latest child was
\* worse than the parent.
C1_Witness ==
    /\ func = "one_plus_one"
    /\ pc = "opo_loop"
    /\ i >= 2
    /\ heap[child].fitness < heap[parent].fitness

\* The number of statements a call still has to execute: one to return, and
\* for each generation left the statements of its body.
GenerationCost ==
    IF func = "one_plus_one" THEN 3
    ELSE 2 + 3 * Cardinality(Offspring(lambda))

Variant ==
    CASE pc = "idle"        -> 3 + MaxGen * (2 + 3 * MaxLambda)
                                 + 3 * DemoIterations
      [] pc = "demo_loop"   -> 1 + (DemoIterations - i) * 3
      [] pc = "demo_eval"   -> (DemoIterations - i) * 3
      [] pc = "demo_select" -> (DemoIterations - i) * 3 - 1
      [] pc = "mutate"      -> 1
      [] pc = "opo_loop"    -> 1 + (Len(fits) - i) * GenerationCost
      [] pc = "opo_eval"    -> (Len(fits) - i) * GenerationCost
      [] pc = "opo_select"  -> (Len(fits) - i) * GenerationCost - 1
      [] pc = "opl_loop"    -> 1 + (Len(fits) - i) * GenerationCost
      [] pc = "opl_inner"   -> (Len(fits) - i) * GenerationCost
                                 - 3 * (Len(population) - 1)
      [] pc = "opl_eval"    -> (Len(fits) - i) * GenerationCost
                                 - 3 * (Len(population) - 1) + 2
      [] pc = "opl_compare" -> (Len(fits) - i) * GenerationCost
                                 - 3 * (Len(population) - 1) + 1
      [] OTHER              -> 0

\* The disjunction of the guards of the actions: the statement at pc can be
\* executed (the other conjuncts of the actions only assign).
CanStep ==
    \/ pc \in {"idle", "mutate", "opo_eval", "opo_select", "opl_eval",
               "opl_compare", "demo_eval", "demo_select"}
    \/ pc = "demo_loop" /\ i \in 0..(DemoIterations - 1)
    \/ pc = "demo_loop" /\ i \notin 0..(DemoIterations - 1)
    \/ pc = "opo_loop" /\ i \in Generations(fits)
    \/ pc = "opo_loop" /\ i \notin Generations(fits)
    \/ pc = "opl_loop" /\ i \in Generations(fits)
    \/ pc = "opl_loop" /\ i \notin Generations(fits)
    \/ pc = "opl_inner" /\ j \in Offspring(lambda)
    \/ pc = "opl_inner" /\ j \notin Offspring(lambda)

\* C2: a run always terminates, after exactly num_generations iterations of
\* the generational loop and with exactly num_generations entries, also when
\* the optimum was reached before the last generation: every statement
\* executed lowers the non-negative count of statements left, a call that has
\* not returned can execute its next statement, and a call returns only with
\* i = num_generations = len(fits).
C2_RunsAllGenerations ==
    /\ [][Variant' < Variant]_vars
    /\ [](Variant >= 0 /\ (pc # "done" => CanStep))
    /\ [](pc = "done" /\ func \in Runs =>
            i = num_generations /\ Len(fits) = num_generations)

\* Under the fairness of FairSpec every call returns.
Terminates == <>(pc = "done")

\* A finished run that had reached the OneMax optimum in its first generation
\* and still recorded a later one.
C2_Witness ==
    /\ pc = "done"
    /\ func \in Runs
    /\ objective = "onemax"
    /\ num_generations >= 2
    /\ i = num_generations
    /\ fits[1] = ind_length

\* C3: in every generation of one_plus_one the child replaces the parent if
\* and only if child.fitness >= parent.fitness; otherwise the parent stays.
C3_ReplaceIffNotWorse ==
    [][pc = "opo_select" =>
         /\ (parent' = child) <=> (heap[child].fitness >= heap[parent].fitness)
         /\ (parent' # child) => (parent' = parent)]_vars

\* A child of equal fitness has just replaced the parent.
C3_Witness ==
    /\ func = "one_plus_one"
    /\ pc = "opo_loop"
    /\ i >= 2
    /\ parent = child
    /\ fits[i] = fits[i - 1]

OffspringOf(pop) == {pop[k] : k \in 2..Len(pop)}

\* C4: in a generation of one_plus_lambda where the best offspring has the
\* expert's fitness and none is better, the expert afterwards is an
\* offspring of that fitness, not the old expert.
C4_EqualBestReplaces ==
    [][(/\ pc = "opl_inner"
        /\ pc' = "opl_loop"
        /\ OffspringOf(population) # {}
        /\ \A s \in OffspringOf(population) :
              heap[s].fitness <= heap[expert].fitness
        /\ \E s \in OffspringOf(population) :
              heap[s].fitness = heap[expert].fitness)
       => /\ expert' \in OffspringOf(population)
          /\ heap[expert'].fitness = heap[expert].fitness]_vars

\* C5: leading_ones returns the 0-based index of the first 0-bit, and the
\* genome length when there is no 0-bit.
C5_LeadingOnesIsFirstZero ==
    objective = "leading_ones" =>
      \A s \in Slots : heap[s].evals > 0 =>
        LET g == GenesOf(heap, arrays, s)
            zeros == {k \in 1..Len(g) : g[k] = 0}
        IN  heap[s].fitness =
              IF zeros = {} THEN Len(g)
              ELSE (CHOOSE k \in zeros : \A m \in zeros : k <= m) - 1

\* C6: the mutate calls of one_plus_one and one_plus_lambda use the mutation
\* rate 1/n, n the genome length of the individual being mutated.
C6_DefaultRateIsOneOverN ==
    (func \in Runs /\ pc \in {"opo_eval", "opl_eval"}) =>
      mutation_rate[1] * ind_length = mutation_rate[2]

\* C7: mutate leaves its input individual unchanged and returns a distinct,
\* unevaluated individual whose gene array is not the parent's.
C7_MutateFrame ==
    [][((pc = "mutate" /\ pc' = "done") \/ pc' \in {"opo_eval", "opl_eval"}) =>
         LET p == IF func = "one_plus_lambda" THEN expert ELSE parent
             c == IF func = "one_plus_lambda"
                  THEN population'[Len(population')] ELSE child'
         IN  /\ heap'[p] = heap[p]
             /\ arrays'[heap'[p].genes] = arrays[heap[p].genes]
             /\ c # p
             /\ heap[c] = NoInd
             /\ heap'[c].genes # heap'[p].genes
             /\ heap'[c].fitness = NegInf]_vars

\* mutate returned a child whose genes differ from the parent's.
C7_Witness ==
    /\ func = "mutate"
    /\ pc = "done"
    /\ GenesOf(heap, arrays, child) # GenesOf(heap, arrays, parent)

\* C8: with mutation_rate = 0 mutate returns the parent's genome, with
\* mutation_rate = 1 its bitwise complement, whatever the draws.
C8_ExtremeRates ==
    (func = "mutate" /\ pc = "done") =>
      LET pg == GenesOf(heap, arrays, parent)
          cg == GenesOf(heap, arrays, child)
      IN  /\ mutation_rate = <<0, 1>> => cg = pg
          /\ mutation_rate = <<1, 1>> =>
               /\ Len(cg) = Len(pg)
               /\ \A k \in 1..Len(pg) : cg[k] \in Bits /\ cg[k] = 1 - pg[k]

\* mutate with rate 1 returned the complement of a genome of two bits or more.
C8_Witness ==
    /\ func = "mutate"
    /\ pc = "done"
    /\ mutation_rate = <<1, 1>>
    /\ ind_length >= 2
    /\ GenesOf(heap, arrays, child) # GenesOf(heap, arrays, parent)

----------------------------------------------------------------------------
\* The fitness sequences a call can return, over all outcomes of the random
\* draws.  Every individual is evaluated between its creation and the first
\* read of its fitness, so here an individual is its genome and its fitness
\* is the objective of that genome.

Fit(obj, g) == Objective(obj, g)

\* the genomes mutate(ind) can return
Mutants(g) == {MutatedGenes(g, DefaultMutationRate, d) : d \in Draws(Len(g))}

\* one iteration of the loop of one_plus_one: the parent genomes it can end with
OnePlusOneStep(g, obj) ==
    {IF AcceptChild(Fit(obj, c), Fit(obj, g)) THEN c ELSE g : c \in Mutants(g)}

\* the inner loop of one_plus_lambda from index jj on, b being population[best]
RECURSIVE BestFrom(_, _, _, _, _)
BestFrom(g, b, jj, lam, obj) ==
    IF jj \notin Offspring(lam) THEN {b}
    ELSE UNION {BestFrom(g, IF Better(Fit(obj, c), Fit(obj, b)) THEN c ELSE b,
                         jj + 1, lam, obj) : c \in Mutants(g)}

\* one iteration of the loop of one_plus_lambda: the expert genomes it can end with
OnePlusLambdaStep(g, obj, lam) ==
    {IF AcceptBest(Fit(obj, b), Fit(obj, g)) THEN b ELSE g :
        b \in BestFrom(g, g, 1, lam, obj)}

\* fits[k..] for the loop of one_plus_one entered with parent genome g
RECURSIVE OnePlusOneFrom(_, _, _, _)
OnePlusOneFrom(g, k, G, obj) ==
    IF k \notin 0..(G - 1) THEN {<<>>}
    ELSE UNION {{<<Fit(obj, np)>> \o t : t \in OnePlusOneFrom(np, k + 1, G, obj)} :
                  np \in OnePlusOneStep(g, obj)}

\* fits[k..] for the loop of one_plus_lambda entered with expert genome g
RECURSIVE OnePlusLambdaFrom(_, _, _, _, _)
OnePlusLambdaFrom(g, k, G, obj, lam) ==
    IF k \notin 0..(G - 1) THEN {<<>>}
    ELSE UNION {{<<Fit(obj, ne)>> \o t :
                    t \in OnePlusLambdaFrom(ne, k + 1, G, obj, lam)} :
                  ne \in OnePlusLambdaStep(g, obj, lam)}

TracesOnePlusOne(n, G, obj) ==
    UNION {OnePlusOneFrom(g, 0, G, obj) : g \in Genomes(n)}

TracesOnePlusLambda(n, G, obj, lam) ==
    UNION {OnePlusLambdaFrom(g, 0, G, obj, lam) : g \in Genomes(n)}

\* Every sequence a run of the state machine returns is in the trace set of
\* its call.
TracesCoverRuns ==
    pc = "done" =>
      /\ func = "one_plus_one" =>
           fits \in TracesOnePlusOne(ind_length, num_generations, objective)
      /\ func = "one_plus_lambda" =>
           fits \in TracesOnePlusLambda(ind_length, num_generations,
                                        objective, lambda)

\* C9: one_plus_lambda with lambda = 1 can produce exactly the fitness traces
\* one_plus_one can produce for the same genome length, generation count and
\* objective.
C9_LambdaOneIsOnePlusOne ==
    (func = "one_plus_lambda" /\ lambda = 1 /\ pc = "opl_loop" /\ i = 0) =>
      TracesOnePlusLambda(ind_length, num_generations, objective, 1)
        = TracesOnePlusOne(ind_length, num_generations, objective)

C11_LambdaEvaluationsPerGeneration ==
    (func = "one_plus_lambda" /\ lambda >= 1 /\ pc = "opl_loop") =>
      /\ nevals - 1 = i * lambda
      /\ i >= 1 => Cardinality(OffspringOf(population)) = lambda

\* C12 as stated: one_plus_lambda called with lambda < 1 stops with an error
\* before any generation runs: it never enters the generational loop body,
\* records no generation and returns no fitness sequence.
C12_RejectsLambdaBelowOne ==
    (func = "one_plus_lambda" /\ lambda < 1) =>
      /\ pc \notin {"opl_inner", "opl_eval", "opl_compare", "done"}
      /\ i = 0

\* C12 as amended: one_plus_lambda called with lambda < 1 raises no error;
\* range(1, lambda) is empty, so no offspring is created or evaluated, but
\* every generation runs and records the fitness of the unchanged initial
\* expert, and the sequence of num_generations entries is returned.
C12_LambdaBelowOneRunsWithoutOffspring ==
    (func = "one_plus_lambda" /\ lambda < 1) =>
      /\ nevals = 1
      /\ pc \notin {"opl_eval", "opl_compare"}
      /\ pc = "opl_inner" => population = <<expert>>
      /\ pc # "done" => /\ expert = 1
                        /\ \A k \in 1..i : fits[k] = heap[expert].fitness
      /\ \A k \in 1..i : fits[k] = fits[1]
      /\ pc = "done" => i = num_generations /\ Len(fits) = num_generations

\* one_plus_lambda with lambda < 1 has returned a sequence of two entries or
\* more.
C12_Witness ==
    /\ func = "one_plus_lambda"
    /\ lambda < 1
    /\ pc = "done"
    /\ num_generations >= 2
    /\ Len(fits) = num_generations

\* The individual in slot s has been evaluated on the genes it has now.
Evaluated(s) ==
    /\ heap[s].evals >= 1
    /\ heap[s].fitness # NegInf
    /\ heap[s].fitness = Objective(objective, GenesOf(heap, arrays, s))

\* C13: whenever a fitness is about to be read by a comparison or recorded
\* into fits in a (1+1) or (1+lambda) loop, its individual has been evaluated
\* on its current genome and the fitness is not the sentinel of the
\* constructor.
C13_FitnessReadOnlyAfterEvaluate ==
    /\ pc \in {"opo_select", "demo_select"} =>
         Evaluated(child) /\ Evaluated(parent)
    /\ pc = "opl_compare" =>
         Evaluated(At(population, j)) /\ Evaluated(At(population, best))
    /\ pc = "opl_inner" =>
         Evaluated(At(population, best)) /\ Evaluated(expert)

\* C14: fits is a best-so-far trace: at the end of every generation i the
\* entry just recorded equals the largest fitness of the initial individual
\* and all offspring evaluated so far, and it is the fitness of the current
\* parent/expert; entries recorded earlier are not changed afterwards.
C14_BestSoFarTrace ==
    [][(func \in Runs /\ pc' \in {"opo_loop", "opl_loop"} /\ i' >= 1) =>
         /\ fits'[i'] = maxfit'
         /\ fits'[i'] = heap'[IF func = "one_plus_one" THEN parent'
                              ELSE expert'].fitness
         /\ \A k \in 1..i : fits'[k] = fits[k]]_vars

\* A second generation of one_plus_lambda has raised the recorded fitness
\* while one of its offspring was worse than the expert it came from.
C14_Witness ==
    /\ func = "one_plus_lambda"
    /\ pc = "opl_loop"
    /\ i >= 2
    /\ fits[i] > fits[i - 1]
    /\ \E s \in OffspringOf(population) : heap[s].fitness < fits[i - 1]

====
